---- MODULE Spec2Model ----
(***************************************************************************)
(* State-machine model of maro.communication.proxy.Proxy: rendezvous on    *)
(* the Redis registry (_join), reconciliation of the onboard peers with    *)
(* the registry (_check_peers_update), the shutdown hooks, the send gate   *)
(* and receive_by_id with its message cache.                               *)
(***************************************************************************)
EXTENDS Integers, Sequences, FiniteSets, TLC

(***************************************************************************)
(* Bounds of the model.                                                    *)
(***************************************************************************)
\* Addresses a peer's driver may be bound to: 1..MaxAddr.
MaxAddr == 2
\* Largest max_retries the constructor is given.
MaxRetriesBound == 2
\* Longest session_id_list a caller passes to receive_by_id.
MaxReq == 2
\* Messages the driver's receive stream yields in one run.
MaxMsgs == 4
\* Send-class calls in one run.
MaxSends == 3
\* reply and forward calls in one run.
MaxRelays == 1
\* Capacity of the rejoin cache (MAX_LENGTH_FOR_MESSAGE_CACHE, 1024 in the
\* source, scaled down so that the cache fills).
RejoinCacheCapacity == 2

(***************************************************************************)
(* The component group.  Peer names carry their component type (line 76),  *)
(* so the name sets of two types are disjoint.                             *)
(***************************************************************************)
PeerTypes == {"actor", "worker"}
\* Iteration order of the expected_peers dict.
TypeOrder == <<"actor", "worker">>
NamesOf(t) == IF t = "actor" THEN {"A1", "A2"} ELSE {"W1"}
AllPeerNames == UNION {NamesOf(t) : t \in PeerTypes}
Addrs == 1..MaxAddr
\* Value a defaultdict(dict) creates on a read of a missing key.
EmptySocket == 0
\* What hmget answers for a field the hash does not hold.
NoneValue == -1
\* os.getenv("CONTAINER_NAME").
ContainerName == 1
\* self._name and the address of the proxy's own driver.
SelfName == "L"
SelfAddr == 1
\* Session ids of the messages on the wire.
SessionIds == {1, 2, 3}
\* Signal numbers of SIGINT and SIGTERM.
SIGINT == 2
SIGTERM == 15

\* f"{group}:{type}" with group "g"; the proxy's own type is "learner".
hash_table_name(t) == IF t = "actor" THEN "g:actor" ELSE "g:worker"
redis_hash_name == "g:learner"
\* The side map _join writes and the one _signal_handler deletes from.
JoinSideMap == "job:component_name_to_container_name"
SignalSideMap == "component-container-mapping"
RedisKeys == {"g:actor", "g:worker", redis_hash_name, JoinSideMap, SignalSideMap}

(***************************************************************************)
(* A Redis hash is a sequence of <<field, value>> in insertion order.      *)
(***************************************************************************)
Range(s) == {s[i] : i \in 1..Len(s)}
HFields(h) == {h[i][1] : i \in 1..Len(h)}
HLen(h) == Len(h)
HKeys(h) == [i \in 1..Len(h) |-> h[i][1]]
HGet(h, f) == LET idx == {i \in 1..Len(h) : h[i][1] = f}
              IN  IF idx = {} THEN NoneValue ELSE h[CHOOSE i \in idx : TRUE][2]
HSet(h, f, v) == IF f \in HFields(h)
                 THEN [i \in 1..Len(h) |-> IF h[i][1] = f THEN <<f, v>> ELSE h[i]]
                 ELSE Append(h, <<f, v>>)
HDel(h, f) == SelectSeq(h, LAMBDA p : p[1] # f)
HGetAll(h) == [f \in HFields(h) |-> HGet(h, f)]
HMGet(h, names) == [i \in 1..Len(names) |-> HGet(h, names[i])]
Prefix(s, n) == [i \in 1..n |-> s[i]]

VARIABLES
  \* ---- constructor arguments
  enable_rejoin, enable_message_cache, max_retries, expected_number,
  \* the minimal_peers argument: a scalar fraction or a mapping of the peer
  \* types to fractions, a fraction being <<numerator, denominator>>
  minimal_peers,
  \* ---- an earlier instance of this component that registered under the
  \* same component name: "none", "running" or "gone"
  twin,
  \* ---- _check_peers_update run statement by statement: where it is (at),
  \* the peer type it is on, its locals on_redis_peers_dict (as the hash read)
  \* and on_board_peers_dict, and the index of the next item of on_redis
  task,
  \* ---- the registry and the driver
  redis, driver_connected,
  \* ---- the proxy: position in _join / _check_peers_update and its fields
  pc, type_idx, retry_number, onboard_peers_name_dict, peers_socket_dict,
  error, exit_code,
  \* ---- history of the rendezvous: the sleeps of the current polling loop,
  \* whether the census was met when polling started and the registry has
  \* not changed since, whether _join has returned
  sleep_log, census_stable, joined,
  \* ---- receive_by_id: self._message_cache, the position of the call, its
  \* argument and locals, the number of messages the driver has yielded
  message_cache, rpc, session_id_list, pending_message_list, received_message,
  n_arrived,
  \* ---- history of receive_by_id: messages returned to callers, messages
  \* the running call took from the cache, n_arrived when the call started
  delivered, served_from_cache, arrived_at_call,
  \* the messages returned to callers, in the order of their return
  returned_log,
  \* ---- send-class calls: the messages handed to driver.send, the rejoin
  \* cache (self._message_cache_for_exited_peers), and the calls made so
  \* far with their outcome; call k sends session id k
  driver_sent, rejoin_cache, calls,
  \* the list of session ids the last send-class call returned, and the last
  \* reply or forward: the message received, the message handed to isend
  returned_ids, relay

cfgVars == <<enable_rejoin, enable_message_cache, max_retries, expected_number,
             minimal_peers>>
envVars == <<twin>>
taskVars == <<task>>
histVars == <<sleep_log, census_stable, joined>>
memberVars == <<cfgVars, envVars, taskVars, redis, driver_connected, pc, type_idx, retry_number,
                onboard_peers_name_dict, peers_socket_dict, error, exit_code,
                histVars>>
recvVars == <<message_cache, rpc, session_id_list, pending_message_list,
              received_message, n_arrived, delivered, served_from_cache,
              arrived_at_call, returned_log>>
sendVars == <<driver_sent, rejoin_cache, calls, returned_ids, relay>>
vars == <<memberVars, recvVars, sendVars>>

(***************************************************************************)
(* minimal_peers: the fractions a caller passes, and the absolute minimum  *)
(* per peer type the constructor computes from them when rejoin is on.     *)
(***************************************************************************)
Fractions == {<<1, 2>>, <<1, 1>>}
ScalarFraction(f) == [kind |-> "scalar", fraction |-> f]
MappingFraction(g) == [kind |-> "mapping", fraction |-> g]
\* The default of the argument (MINIMAL_PEERS).
DefaultMinimalPeers == ScalarFraction(<<1, 1>>)
Max(a, b) == IF a >= b THEN a ELSE b
\* isinstance(minimal_peers, float): the scalar, else minimal_peers[peer_type].
FractionOf(arg, t) == IF arg.kind = "scalar" THEN arg.fraction ELSE arg.fraction[t]
\* int(x) of the product of a count and a non-negative fraction.
IntOfProduct(n, f) == (n * f[1]) \div f[2]
\* self._minimal_peers, which exists only when rejoin is enabled.
HasMinimalPeers == enable_rejoin
MinimalPeers ==
  [t \in PeerTypes |->
     Max(IntOfProduct(expected_number[t], FractionOf(minimal_peers, t)), 1)]

\* No message has been replied to or forwarded yet.
NoRelay == [op |-> "none"]

(***************************************************************************)
(* Construction: Proxy.__init__ up to the call of _join.                   *)
(***************************************************************************)
\* _check_peers_update is not running.
NoTask == [at |-> "idle", type_idx |-> 1, on_redis |-> <<>>, on_board |-> <<>>, k |-> 1]

Init ==
  /\ enable_rejoin \in BOOLEAN
  /\ enable_message_cache \in BOOLEAN
  /\ (~enable_rejoin => ~enable_message_cache)
  /\ max_retries \in 0..MaxRetriesBound
  /\ expected_number \in {f \in [PeerTypes -> 1..2] : f["worker"] = 1}
  /\ minimal_peers = DefaultMinimalPeers
  /\ twin = "none"
  /\ task = NoTask
  /\ redis = [k \in RedisKeys |-> <<>>]
  /\ driver_connected = {}
  /\ pc = "init"
  /\ type_idx = 1
  /\ retry_number = 0
  /\ onboard_peers_name_dict = <<>>
  /\ peers_socket_dict = <<>>
  /\ error = "none"
  /\ exit_code = 0
  /\ sleep_log = <<>>
  /\ census_stable = FALSE
  /\ joined = FALSE
  /\ message_cache = <<>>
  /\ rpc = "idle"
  /\ session_id_list = <<>>
  /\ pending_message_list = <<>>
  /\ received_message = <<>>
  /\ n_arrived = 0
  /\ delivered = {}
  /\ served_from_cache = <<>>
  /\ arrived_at_call = 0
  /\ driver_sent = <<>>
  /\ rejoin_cache = <<>>
  /\ calls = <<>>
  /\ returned_log = <<>>
  /\ returned_ids = <<>>
  /\ relay = NoRelay

\* Every expected peer-type's hash holds at least its expected count.
CensusMet(r) == \A t \in PeerTypes : HLen(r[hash_table_name(t)]) >= expected_number[t]

(***************************************************************************)
(* The other components of the group: a peer registers or restarts with a  *)
(* new address (hset), or deregisters (hdel).  The registry is followed    *)
(* for as long as the proxy lives.                                         *)
(***************************************************************************)
ProxyAlive == pc \notin {"failed", "exited", "deleted"}
\* _join has registered the proxy and has not yet resolved its peers.
Polling == pc \in {"poll", "hkeys", "build"}

PeerHSet(t, n, a) ==
  /\ ProxyAlive
  /\ HGet(redis[hash_table_name(t)], n) # a
  /\ redis' = [redis EXCEPT ![hash_table_name(t)] = HSet(@, n, a)]
  /\ census_stable' = (census_stable /\ ~Polling)
  /\ UNCHANGED <<recvVars, sendVars, cfgVars, envVars, taskVars, driver_connected, pc, type_idx, retry_number,
                 onboard_peers_name_dict, peers_socket_dict, error, exit_code,
                 sleep_log, joined>>

PeerHDel(t, n) ==
  /\ ProxyAlive
  /\ n \in HFields(redis[hash_table_name(t)])
  /\ redis' = [redis EXCEPT ![hash_table_name(t)] = HDel(@, n)]
  /\ census_stable' = (census_stable /\ ~Polling)
  /\ UNCHANGED <<recvVars, sendVars, cfgVars, envVars, taskVars, driver_connected, pc, type_idx, retry_number,
                 onboard_peers_name_dict, peers_socket_dict, error, exit_code,
                 sleep_log, joined>>

(***************************************************************************)
(* Another instance of this component, started with the same               *)
(* component_name (the instance this one replaces, or a second copy): its  *)
(* _register_redis and its shutdown hooks act on the same field of the     *)
(* same hash.                                                              *)
(***************************************************************************)
\* The address of the twin's driver.
TwinAddr == MaxAddr

\* The twin's _register_redis: hset(self._redis_hash_name, self._name, address).
TwinRegister ==
  /\ twin = "starting"
  /\ redis' = [redis EXCEPT ![redis_hash_name] = HSet(@, SelfName, TwinAddr)]
  /\ twin' = "running"
  /\ UNCHANGED <<recvVars, sendVars, cfgVars, taskVars, driver_connected, pc, type_idx, retry_number,
                 onboard_peers_name_dict, peers_socket_dict, error, exit_code, histVars>>

\* The twin's _signal_handler or __del__: hdel(self._redis_hash_name, self._name).
TwinHook ==
  /\ twin = "running"
  /\ redis' = [redis EXCEPT ![redis_hash_name] = HDel(@, SelfName)]
  /\ twin' = "gone"
  /\ UNCHANGED <<recvVars, sendVars, cfgVars, taskVars, driver_connected, pc, type_idx, retry_number,
                 onboard_peers_name_dict, peers_socket_dict, error, exit_code, histVars>>

(***************************************************************************)
(* _join: _register_redis, _get_peers_list, _build_connection, side map.   *)
(***************************************************************************)
\* _register_redis: publish the driver's address and install the handlers.
RegisterRedis ==
  /\ pc = "init"
  /\ redis' = [redis EXCEPT ![redis_hash_name] = HSet(@, SelfName, SelfAddr)]
  /\ pc' = "poll"
  /\ type_idx' = 1
  /\ retry_number' = 0
  /\ census_stable' = CensusMet(redis)
  /\ UNCHANGED <<recvVars, sendVars, cfgVars, envVars, taskVars, driver_connected, onboard_peers_name_dict,
                 peers_socket_dict, error, exit_code, sleep_log, joined>>

\* Mutant: one more round of the loop.
MayPoll_OneMore(retries) == retries <= max_retries
\* The loop condition of _get_peers_list.
MayPoll(retries) == retries < max_retries

\* base_retry_interval, in units of time, and the sleep after failed poll k:
\* self._retry_interval * (2 ** retry_number).
BaseRetryInterval == 1
SleepTime(k) == BaseRetryInterval * 2^k

\* while retry_number < max_retries: hlen >= peer_number, go on to hkeys.
PollCensusMet ==
  /\ pc = "poll"
  /\ MayPoll(retry_number)
  /\ HLen(redis[hash_table_name(TypeOrder[type_idx])]) >= expected_number[TypeOrder[type_idx]]
  /\ pc' = "hkeys"
  /\ UNCHANGED <<recvVars, sendVars, cfgVars, envVars, taskVars, redis, driver_connected, type_idx, retry_number,
                 onboard_peers_name_dict, peers_socket_dict, error, exit_code,
                 histVars>>

\* hlen < peer_number: sleep retry_interval * 2 ** retry_number, retry.
PollBackoff ==
  /\ pc = "poll"
  /\ MayPoll(retry_number)
  /\ HLen(redis[hash_table_name(TypeOrder[type_idx])]) < expected_number[TypeOrder[type_idx]]
  /\ sleep_log' = Append(sleep_log, SleepTime(retry_number))
  /\ retry_number' = retry_number + 1
  /\ UNCHANGED <<recvVars, sendVars, cfgVars, envVars, taskVars, redis, driver_connected, pc, type_idx,
                 onboard_peers_name_dict, peers_socket_dict, error, exit_code,
                 census_stable, joined>>

\* The loop ends with expected_peers_name still empty: InformationUncompletedError.
PollExhausted ==
  /\ pc = "poll"
  /\ ~MayPoll(retry_number)
  /\ pc' = "failed"
  /\ error' = "InformationUncompleted"
  /\ UNCHANGED <<recvVars, sendVars, cfgVars, envVars, taskVars, redis, driver_connected, type_idx, retry_number,
                 onboard_peers_name_dict, peers_socket_dict, exit_code, histVars>>

\* hkeys, truncated to the first peer_number names.
ExpectedPeersName(h, peer_number) ==
  IF Len(HKeys(h)) > peer_number THEN Prefix(HKeys(h), peer_number) ELSE HKeys(h)

\* hkeys returned names: record them and go on to the next peer type.
GetPeersNames ==
  /\ pc = "hkeys"
  /\ LET t == TypeOrder[type_idx]
         names == ExpectedPeersName(redis[hash_table_name(t)], expected_number[t])
     IN  /\ names # <<>>
         /\ onboard_peers_name_dict' = (t :> names) @@ onboard_peers_name_dict
         /\ IF type_idx < Len(TypeOrder)
            THEN /\ type_idx' = type_idx + 1
                 /\ pc' = "poll"
            ELSE /\ type_idx' = 1
                 /\ pc' = "build"
         /\ retry_number' = 0
         /\ sleep_log' = <<>>
  /\ UNCHANGED <<recvVars, sendVars, cfgVars, envVars, taskVars, redis, driver_connected, peers_socket_dict, error,
                 exit_code, census_stable, joined>>

\* hkeys returned no name: "if not expected_peers_name: raise".
GetPeersNamesEmpty ==
  /\ pc = "hkeys"
  /\ LET t == TypeOrder[type_idx]
     IN  ExpectedPeersName(redis[hash_table_name(t)], expected_number[t]) = <<>>
  /\ pc' = "failed"
  /\ error' = "InformationUncompleted"
  /\ UNCHANGED <<recvVars, sendVars, cfgVars, envVars, taskVars, redis, driver_connected, type_idx, retry_number,
                 onboard_peers_name_dict, peers_socket_dict, exit_code, histVars>>

\* Index of the first name hmget has no value for (json.loads(None) raises),
\* or Len + 1.
FirstMissing(values) ==
  LET bad == {i \in 1..Len(values) : values[i] = NoneValue}
  IN  IF bad = {} THEN Len(values) + 1 ELSE CHOOSE i \in bad : \A j \in bad : i <= j

\* The sockets after the loop over name_list stored values[1..upto-1].
StoreSockets(sockets, names, values, upto) ==
  LET set == {names[i] : i \in 1..(upto - 1)}
      last(n) == CHOOSE i \in 1..(upto - 1) :
                   /\ names[i] = n
                   /\ \A j \in 1..(upto - 1) : names[j] = n => j <= i
  IN  [n \in DOMAIN sockets \cup set |->
         IF n \in set THEN values[last(n)] ELSE sockets[n]]

\* What driver.connect(peers) opens.
DriverConnect(conn, peers) == conn \cup {<<n, peers[n]>> : n \in DOMAIN peers}

\* _build_connection, one peer type: hmget and store; after the last type
\* driver.connect(self._peers_socket_dict).
BuildConnection ==
  /\ pc = "build"
  /\ LET t == TypeOrder[type_idx]
         names == onboard_peers_name_dict[t]
         values == HMGet(redis[hash_table_name(t)], names)
         upto == FirstMissing(values)
         sockets == StoreSockets(peers_socket_dict, names, values, upto)
     IN  /\ peers_socket_dict' = sockets
         /\ IF upto <= Len(values)
            THEN /\ pc' = "failed"
                 /\ error' = "InformationUncompleted"
                 /\ UNCHANGED <<type_idx, driver_connected>>
            ELSE /\ error' = error
                 /\ IF type_idx < Len(TypeOrder)
                    THEN /\ type_idx' = type_idx + 1
                         /\ pc' = "build"
                         /\ UNCHANGED driver_connected
                    ELSE /\ type_idx' = 1
                         /\ pc' = "publish"
                         /\ driver_connected' = DriverConnect(driver_connected, sockets)
  /\ UNCHANGED <<recvVars, sendVars, cfgVars, envVars, taskVars, redis, retry_number, onboard_peers_name_dict,
                 exit_code, histVars>>

\* After the slow-joiner delay: publish the container name when rejoin is on;
\* _join and the constructor return.
PublishContainer(r) ==
  IF enable_rejoin THEN [r EXCEPT ![JoinSideMap] = HSet(@, SelfName, ContainerName)]
  ELSE r

JoinReturn ==
  /\ pc = "publish"
  /\ redis' = PublishContainer(redis)
  /\ pc' = "ready"
  /\ joined' = TRUE
  /\ UNCHANGED <<recvVars, sendVars, cfgVars, envVars, taskVars, driver_connected, type_idx, retry_number,
                 onboard_peers_name_dict, peers_socket_dict, error, exit_code,
                 sleep_log, census_stable>>

(***************************************************************************)
(* _check_peers_update, one peer type per step: hgetall, then the local    *)
(* comparison with the onboard view.                                       *)
(***************************************************************************)
\* on_board_peers_dict: the read of self._peers_socket_dict[name] on a
\* defaultdict(dict) yields {} for a missing name.
OnBoardPeersDict(sockets, name_list) ==
  [n \in Range(name_list) |-> IF n \in DOMAIN sockets THEN sockets[n] ELSE EmptySocket]
\* ... and stores that {} under the name.
SocketsAfterRead(sockets, name_list) ==
  [n \in DOMAIN sockets \cup Range(name_list) |->
     IF n \in DOMAIN sockets THEN sockets[n] ELSE EmptySocket]

\* Mutant: a name that is not onboard is not taken for a new peer.
NewPeers_None(on_board, on_redis) == {}
\* The three cases of lines 462-478.
NewPeers(on_board, on_redis) == DOMAIN on_redis \ DOMAIN on_board
RestartedPeers(on_board, on_redis) ==
  {n \in DOMAIN on_redis \cap DOMAIN on_board : on_redis[n] # on_board[n]}
ExitedPeers(on_board, on_redis) == DOMAIN on_board \ DOMAIN on_redis

\* Mutant: the address of an exited peer is not deleted.
SocketsAfterUpdate_KeepExited(sockets, on_board, on_redis) ==
  LET changed == NewPeers(on_board, on_redis) \cup RestartedPeers(on_board, on_redis)
  IN  [n \in DOMAIN sockets \cup changed |->
         IF n \in changed THEN on_redis[n] ELSE sockets[n]]
\* self._peers_socket_dict after the two loops of lines 462-482.
SocketsAfterUpdate(sockets, on_board, on_redis) ==
  LET changed == NewPeers(on_board, on_redis) \cup RestartedPeers(on_board, on_redis)
      exited == ExitedPeers(on_board, on_redis)
  IN  [n \in (DOMAIN sockets \cup changed) \ exited |->
         IF n \in changed THEN on_redis[n] ELSE sockets[n]]

\* A call of the driver: connect or disconnect {name: address}.
DriverCall(op, n, a) == [op |-> op, name |-> n, address |-> a]

\* Mutant: a restarted peer is connected at its new address and the old
\* connection is left open.
DriverCallsFor_NoDisconnect(n, on_board, on_redis) ==
  IF n \in DOMAIN on_redis /\ n \notin DOMAIN on_board
  THEN <<DriverCall("connect", n, on_redis[n])>>
  ELSE IF n \in DOMAIN on_redis /\ on_redis[n] # on_board[n]
  THEN <<DriverCall("connect", n, on_redis[n])>>
  ELSE IF n \in DOMAIN on_board /\ n \notin DOMAIN on_redis
  THEN <<DriverCall("disconnect", n, on_board[n])>>
  ELSE <<>>
\* The calls lines 462-482 make for peer n, in their order.
DriverCallsFor(n, on_board, on_redis) ==
  IF n \in DOMAIN on_redis /\ n \notin DOMAIN on_board
  THEN <<DriverCall("connect", n, on_redis[n])>>
  ELSE IF n \in DOMAIN on_redis /\ on_redis[n] # on_board[n]
  THEN <<DriverCall("disconnect", n, on_board[n]),
         DriverCall("connect", n, on_redis[n])>>
  ELSE IF n \in DOMAIN on_board /\ n \notin DOMAIN on_redis
  THEN <<DriverCall("disconnect", n, on_board[n])>>
  ELSE <<>>

\* Mutant: the driver opens connections and closes none.
RECURSIVE ApplyDriverCalls_ConnectOnly(_, _)
ApplyDriverCalls_ConnectOnly(conn, q) ==
  IF q = <<>> THEN conn
  ELSE ApplyDriverCalls_ConnectOnly(IF Head(q).op = "connect"
                                    THEN conn \cup {<<Head(q).name, Head(q).address>>}
                                    ELSE conn,
                                    Tail(q))
\* The driver's connections after a sequence of calls.
RECURSIVE ApplyDriverCalls(_, _)
ApplyDriverCalls(conn, q) ==
  IF q = <<>> THEN conn
  ELSE ApplyDriverCalls(IF Head(q).op = "connect"
                        THEN conn \cup {<<Head(q).name, Head(q).address>>}
                        ELSE conn \ {<<Head(q).name, Head(q).address>>},
                        Tail(q))

\* The driver's connections after the connect and disconnect calls of 462-482.
DriverAfterUpdate(conn, on_board, on_redis) ==
  LET names == DOMAIN on_board \cup DOMAIN on_redis
  IN  {c \in conn : c[1] \notin names}
        \cup UNION {ApplyDriverCalls({c \in conn : c[1] = n},
                                     DriverCallsFor(n, on_board, on_redis)) : n \in names}

\* Specification 4.3 step 3: the entries of the rejoin cache for the peers
\* found new or restarted are dispatched in FIFO order and leave the cache.
RejoinDispatch(cache, names) == SelectSeq(cache, LAMBDA m : m.destination \in names)
RejoinRemainder(cache, names) == SelectSeq(cache, LAMBDA m : m.destination \notin names)

CheckPeersUpdate ==
  /\ pc \in {"ready", "reconcile"}
  /\ enable_rejoin
  /\ LET i == IF pc = "ready" THEN 1 ELSE type_idx
         t == TypeOrder[i]
         h == redis[hash_table_name(t)]
         on_redis == HGetAll(h)
         on_board == OnBoardPeersDict(peers_socket_dict, onboard_peers_name_dict[t])
         read == SocketsAfterRead(peers_socket_dict, onboard_peers_name_dict[t])
         found == NewPeers(on_board, on_redis) \cup RestartedPeers(on_board, on_redis)
     IN  /\ IF on_board # on_redis
            THEN /\ peers_socket_dict' = SocketsAfterUpdate(read, on_board, on_redis)
                 /\ driver_connected' = DriverAfterUpdate(driver_connected, on_board, on_redis)
                 /\ onboard_peers_name_dict' =
                      [onboard_peers_name_dict EXCEPT ![t] = HKeys(h)]
                 /\ driver_sent' = driver_sent \o RejoinDispatch(rejoin_cache, found)
                 /\ rejoin_cache' = RejoinRemainder(rejoin_cache, found)
            ELSE /\ peers_socket_dict' = read
                 /\ UNCHANGED <<driver_connected, onboard_peers_name_dict,
                                driver_sent, rejoin_cache>>
         /\ IF i < Len(TypeOrder)
            THEN /\ pc' = "reconcile"
                 /\ type_idx' = i + 1
            ELSE /\ pc' = "ready"
                 /\ type_idx' = 1
  /\ UNCHANGED <<recvVars, calls, returned_ids, relay, cfgVars, envVars, taskVars, redis, retry_number, error, exit_code,
                 histVars>>

(***************************************************************************)
(* _check_peers_update statement by statement, as it runs when nothing     *)
(* holds the caller off while it is between two statements: the method     *)
(* takes no lock.  The steps are the read and comparison of lines 455-461, *)
(* one round of the loop over on_redis_peers_dict (462-474), one round of  *)
(* the loop over the exited peers (477-482), and the store of line 485.    *)
(***************************************************************************)
\* The task moves on to the next peer type, or ends.
TaskNext(i) ==
  IF i < Len(TypeOrder) THEN [NoTask EXCEPT !.at = "read", !.type_idx = i + 1]
  ELSE NoTask

\* Lines 455-461: hgetall, the onboard view, and their comparison.
TaskRead ==
  /\ pc = "ready"
  /\ enable_rejoin
  /\ task.at \in {"idle", "read"}
  /\ LET i == IF task.at = "idle" THEN 1 ELSE task.type_idx
         t == TypeOrder[i]
         h == redis[hash_table_name(t)]
         on_board == OnBoardPeersDict(peers_socket_dict, onboard_peers_name_dict[t])
     IN  /\ peers_socket_dict' = SocketsAfterRead(peers_socket_dict, onboard_peers_name_dict[t])
         /\ task' = IF on_board # HGetAll(h)
                    THEN [at |-> "update", type_idx |-> i, on_redis |-> h,
                          on_board |-> on_board, k |-> 1]
                    ELSE TaskNext(i)
  /\ UNCHANGED <<recvVars, sendVars, cfgVars, envVars, redis, driver_connected, pc, type_idx,
                 retry_number, onboard_peers_name_dict, error, exit_code, histVars>>

\* Lines 462-474: one item of on_redis_peers_dict; a new or restarted peer
\* gets its driver calls and its socket is stored.
TaskItem ==
  /\ task.at = "update"
  /\ task.k <= Len(task.on_redis)
  /\ LET peer_name == task.on_redis[task.k][1]
         socket_info == task.on_redis[task.k][2]
         told == DriverCallsFor(peer_name, task.on_board, HGetAll(task.on_redis))
     IN  /\ driver_connected' = ApplyDriverCalls(driver_connected, told)
         /\ peers_socket_dict' =
              IF told = <<>> THEN peers_socket_dict
              ELSE [n \in DOMAIN peers_socket_dict \cup {peer_name} |->
                      IF n = peer_name THEN socket_info ELSE peers_socket_dict[n]]
  /\ task' = [task EXCEPT !.k = @ + 1]
  /\ UNCHANGED <<recvVars, sendVars, cfgVars, envVars, redis, pc, type_idx, retry_number,
                 onboard_peers_name_dict, error, exit_code, histVars>>

\* The exited peers whose round of the loop of lines 479-482 is still to come.
TaskExitedLeft ==
  ExitedPeers(task.on_board, HGetAll(task.on_redis)) \cap DOMAIN peers_socket_dict

\* Lines 479-482: one exited peer is disconnected and its socket deleted.
TaskExited ==
  /\ task.at = "update"
  /\ task.k > Len(task.on_redis)
  /\ TaskExitedLeft # {}
  /\ LET names == onboard_peers_name_dict[TypeOrder[task.type_idx]]
         first == CHOOSE j \in 1..Len(names) :
                    /\ names[j] \in TaskExitedLeft
                    /\ \A l \in 1..(j - 1) : names[l] \notin TaskExitedLeft
         exited_peer == names[first]
     IN  /\ driver_connected' =
              ApplyDriverCalls(driver_connected,
                               DriverCallsFor(exited_peer, task.on_board, HGetAll(task.on_redis)))
         /\ peers_socket_dict' = [n \in DOMAIN peers_socket_dict \ {exited_peer} |->
                                    peers_socket_dict[n]]
  /\ UNCHANGED <<recvVars, sendVars, cfgVars, envVars, taskVars, redis, pc, type_idx, retry_number,
                 onboard_peers_name_dict, error, exit_code, histVars>>

\* Line 485: the names onboard become the keys read from the registry; the
\* messages cached for the peers found new or restarted are dispatched.
TaskNames ==
  /\ task.at = "update"
  /\ task.k > Len(task.on_redis)
  /\ TaskExitedLeft = {}
  /\ LET t == TypeOrder[task.type_idx]
         on_redis == HGetAll(task.on_redis)
         found == NewPeers(task.on_board, on_redis) \cup RestartedPeers(task.on_board, on_redis)
     IN  /\ onboard_peers_name_dict' =
              [onboard_peers_name_dict EXCEPT ![t] = HKeys(task.on_redis)]
         /\ driver_sent' = driver_sent \o RejoinDispatch(rejoin_cache, found)
         /\ rejoin_cache' = RejoinRemainder(rejoin_cache, found)
  /\ task' = TaskNext(task.type_idx)
  /\ UNCHANGED <<recvVars, calls, returned_ids, relay, cfgVars, envVars, redis, driver_connected,
                 pc, type_idx, retry_number, peers_socket_dict, error, exit_code, histVars>>

(***************************************************************************)
(* Shutdown hooks.                                                         *)
(***************************************************************************)
\* Mutant: the handler deletes the proxy's name from the side map only.
RedisAfterSignal_SideMapOnly(r) ==
  IF enable_rejoin THEN [r EXCEPT ![SignalSideMap] = HDel(@, SelfName)] ELSE r
\* The registry after _signal_handler's hdel calls.
RedisAfterSignal(r) ==
  LET r1 == [r EXCEPT ![redis_hash_name] = HDel(@, SelfName)]
  IN  IF enable_rejoin THEN [r1 EXCEPT ![SignalSideMap] = HDel(@, SelfName)] ELSE r1

\* SIGINT or SIGTERM once the handlers are installed: hdel, sys.exit(signum).
SignalHandler(signum) ==
  /\ pc \in {"poll", "hkeys", "build", "publish", "ready", "reconcile"}
  /\ redis' = RedisAfterSignal(redis)
  /\ pc' = "exited"
  /\ exit_code' = signum
  /\ UNCHANGED <<recvVars, sendVars, cfgVars, envVars, taskVars, driver_connected, type_idx, retry_number,
                 onboard_peers_name_dict, peers_socket_dict, error, histVars>>

\* The registry after __del__'s hdel.
RedisAfterDel(r) == [r EXCEPT ![redis_hash_name] = HDel(@, SelfName)]

\* __del__: the proxy is destroyed after use or after a failed constructor.
\* (When the interpreter exits after the handler, __del__ repeats the hdel
\* the handler has done.)
Del ==
  /\ pc \in {"ready", "failed"}
  /\ redis' = RedisAfterDel(redis)
  /\ pc' = "deleted"
  /\ UNCHANGED <<recvVars, sendVars, cfgVars, envVars, taskVars, driver_connected, type_idx, retry_number,
                 onboard_peers_name_dict, peers_socket_dict, error, exit_code,
                 histVars>>

(***************************************************************************)
(* receive_by_id.  A received message is [session_id, uid]; uid numbers    *)
(* the messages in the order the driver yields them.                       *)
(***************************************************************************)
RECURSIVE SeqsUpTo(_, _)
SeqsUpTo(S, n) ==
  IF n = 0 THEN {<<>>}
  ELSE LET shorter == SeqsUpTo(S, n - 1)
       IN  shorter \cup {Append(q, x) : q \in shorter, x \in S}

\* The lists a caller passes to receive_by_id.
RequestLists == SeqsUpTo(SessionIds, MaxReq)

Count(q, x) == Cardinality({i \in 1..Len(q) : q[i] = x})
\* Mutant: every occurrence of x is removed.
ListRemove_All(q, x) == SelectSeq(q, LAMBDA e : e # x)
\* list.remove(x): the list without its first x.
ListRemove(q, x) ==
  LET i == CHOOSE i \in 1..Len(q) : q[i] = x /\ \A j \in 1..(i - 1) : q[j] # x
  IN  [j \in 1..(Len(q) - 1) |-> IF j < i THEN q[j] ELSE q[j + 1]]
RECURSIVE ListRemoveN(_, _, _)
ListRemoveN(q, x, n) == IF n = 0 THEN q ELSE ListRemoveN(ListRemove(q, x), x, n - 1)
\* del d[k] and d[k].append(m) on the defaultdict(list).
DictDel(d, k) == [j \in DOMAIN d \ {k} |-> d[j]]
\* Mutant: the message is put at the head of its bucket.
DictAppend_Front(d, k, m) ==
  [j \in DOMAIN d \cup {k} |-> IF j = k
                               THEN (IF k \in DOMAIN d THEN <<m>> \o d[k] ELSE <<m>>)
                               ELSE d[j]]
DictAppend(d, k, m) ==
  [j \in DOMAIN d \cup {k} |-> IF j = k
                               THEN (IF k \in DOMAIN d THEN Append(d[k], m) ELSE <<m>>)
                               ELSE d[j]]
Uids(q) == {q[i].uid : i \in 1..Len(q)}
SidsOf(q) == {q[i].session_id : i \in 1..Len(q)}
CachedUids == UNION {Uids(message_cache[k]) : k \in DOMAIN message_cache}

\* Mutant: the served bucket is not deleted.
CacheAfterServe_NoDel(cache, msg_key) == cache
\* The cache once a drained bucket has been handed over: del self._message_cache[msg_key].
CacheAfterServe(cache, msg_key) == DictDel(cache, msg_key)

\* Lines 257-261 for one msg_key on st = [cache, pending, received, served, raised]:
\* every cached message removes msg_key from the pending list (ValueError when
\* it is not there any more), then the bucket is deleted.
DrainKey(st, msg_key) ==
  IF st.raised \/ msg_key \notin DOMAIN st.cache THEN st
  ELSE LET bucket == st.cache[msg_key]
           k == Count(st.pending, msg_key)
       IN  IF Len(bucket) > k
           THEN [st EXCEPT !.raised = TRUE]
           ELSE [cache |-> CacheAfterServe(st.cache, msg_key),
                 pending |-> ListRemoveN(st.pending, msg_key, Len(bucket)),
                 received |-> st.received \o bucket,
                 served |-> st.served \o bucket,
                 raised |-> FALSE]

RECURSIVE DrainFrom(_, _, _)
DrainFrom(st, ids, i) ==
  IF i > Len(ids) THEN st ELSE DrainFrom(DrainKey(st, ids[i]), ids, i + 1)

\* Lines 252-261: the loop over session_id_list.
DrainCache(cache, ids) ==
  DrainFrom([cache |-> cache, pending |-> ids, received |-> <<>>,
             served |-> <<>>, raised |-> FALSE], ids, 1)

\* receive_by_id(ids) up to its first read of the driver's stream: returns
\* at once when the cache served everything, raises ValueError when a bucket
\* holds more messages than ids asks for, else waits.
RecvStart(ids) ==
  LET st == DrainCache(message_cache, ids)
  IN  /\ message_cache' = st.cache
      /\ session_id_list' = ids
      /\ arrived_at_call' = n_arrived
      /\ n_arrived' = n_arrived
      /\ IF st.raised
         THEN /\ rpc' = "raised"
              /\ pending_message_list' = <<>>
              /\ received_message' = <<>>
              /\ served_from_cache' = <<>>
              /\ UNCHANGED <<delivered, returned_log>>
         ELSE /\ pending_message_list' = st.pending
              /\ received_message' = st.received
              /\ served_from_cache' = st.served
              /\ IF st.pending = <<>>
                 THEN /\ rpc' = "returned"
                      /\ delivered' = delivered \cup Uids(st.received)
                      /\ returned_log' = returned_log \o st.received
                 ELSE /\ rpc' = "wait"
                      /\ UNCHANGED <<delivered, returned_log>>

\* The caller is not blocked in a call of the proxy.
CallerFree ==
  /\ pc = "ready"
  /\ rpc # "wait"
  /\ (calls # <<>> => calls[Len(calls)].result # "waiting")

ReceiveById(ids) ==
  /\ CallerFree
  /\ RecvStart(ids)
  /\ UNCHANGED <<memberVars, sendVars>>

\* Mutant: a message whose id is not pending is returned as well as cached.
Dispatch_NoFilter(st, msg) ==
  IF msg.session_id \in Range(st.pending)
  THEN [cache |-> st.cache,
        pending |-> ListRemove(st.pending, msg.session_id),
        received |-> Append(st.received, msg)]
  ELSE [cache |-> DictAppend(st.cache, msg.session_id, msg),
        pending |-> st.pending,
        received |-> Append(st.received, msg)]
\* Lines 270-274: a message of the stream goes to the result when its id is
\* pending, to the cache otherwise.
Dispatch(st, msg) ==
  IF msg.session_id \in Range(st.pending)
  THEN [cache |-> st.cache,
        pending |-> ListRemove(st.pending, msg.session_id),
        received |-> Append(st.received, msg)]
  ELSE [cache |-> DictAppend(st.cache, msg.session_id, msg),
        pending |-> st.pending,
        received |-> st.received]

\* One iteration of "for msg in self._driver.receive()".
DriverReceive(sid) ==
  /\ rpc = "wait"
  /\ n_arrived < MaxMsgs
  /\ LET msg == [session_id |-> sid, uid |-> n_arrived + 1]
         st == Dispatch([cache |-> message_cache, pending |-> pending_message_list,
                         received |-> received_message], msg)
     IN  /\ n_arrived' = n_arrived + 1
         /\ message_cache' = st.cache
         /\ pending_message_list' = st.pending
         /\ received_message' = st.received
         /\ IF st.pending = <<>>
            THEN /\ rpc' = "returned"
                 /\ delivered' = delivered \cup Uids(st.received)
                 /\ returned_log' = returned_log \o st.received
            ELSE /\ rpc' = "wait"
                 /\ UNCHANGED <<delivered, returned_log>>
  /\ UNCHANGED <<memberVars, sendVars, session_id_list, served_from_cache,
                 arrived_at_call>>


(***************************************************************************)
(* Send-class operations.  peers_checker and the MessageCache class of     *)
(* maro.communication.utils are modelled from the specification (4.2, 3).  *)
(***************************************************************************)
\* Some peer type has fewer names onboard than self._minimal_peers asks for.
Degraded ==
  /\ HasMinimalPeers
  /\ \E t \in PeerTypes : Len(onboard_peers_name_dict[t]) < MinimalPeers[t]

\* The peer-existence gate: what happens to a message for destination dest.
PeersChecker(dest) ==
  IF Degraded THEN "PeersMiss"
  ELSE IF dest \in UNION {Range(onboard_peers_name_dict[t]) : t \in DOMAIN onboard_peers_name_dict}
  THEN "pass"
  ELSE IF ~enable_rejoin THEN "PeersMiss"
  ELSE IF enable_message_cache THEN "cache"
  ELSE "wait"

\* Mutant: isend is not decorated.
IsendGate_Undecorated(dest) == "pass"
\* @peers_checker on isend and on send.
IsendGate(dest) == PeersChecker(dest)
SendGate(dest) == PeersChecker(dest)
\* @peers_checker on _broadcast: the wildcard names no peer to look for.
Wildcard == "*"
BroadcastGate == IF Degraded THEN "PeersMiss" ELSE "pass"

\* Mutant: a full cache keeps what it has and drops the new message.
CachePush_DropNew(cache, msg) ==
  IF Len(cache) >= RejoinCacheCapacity THEN cache ELSE Append(cache, msg)
\* The bounded FIFO of messages for absent peers: the oldest entry goes
\* when a message is added to a full cache.
CachePush(cache, msg) ==
  IF Len(cache) >= RejoinCacheCapacity THEN Append(Tail(cache), msg)
  ELSE Append(cache, msg)

Call(op, dest, result) == [op |-> op, destination |-> dest, result |-> result]
NewMessage(dest) == [destination |-> dest, session_id |-> Len(calls) + 1]
Finish(log, result) == [log EXCEPT ![Len(log)].result = result]

\* Line 388: self._driver.send(message).
IsendBody(msg, log) ==
  /\ driver_sent' = Append(driver_sent, msg)
  /\ calls' = Finish(log, "sent")
  /\ returned_ids' = <<msg.session_id>>
  /\ UNCHANGED <<recvVars, rejoin_cache>>

\* Lines 402-404: driver.send; with an empty status wait for the reply,
\* else return the status.
SendBody(msg, log) ==
  /\ driver_sent' = Append(driver_sent, msg)
  /\ UNCHANGED rejoin_cache
  /\ \E sending_status \in {<<>>, <<msg.session_id>>} :
       IF sending_status = <<>>
       THEN /\ RecvStart(<<msg.session_id>>)
            /\ calls' = Finish(log, "sent")
            /\ returned_ids' = <<>>
       ELSE /\ UNCHANGED recvVars
            /\ calls' = Finish(log, "status")
            /\ returned_ids' = sending_status

\* What the gate does with a message it does not let through.
Gated(gate, msg, log) ==
  /\ gate # "pass"
  /\ calls' = Finish(log, IF gate = "cache" THEN "cached"
                          ELSE IF gate = "wait" THEN "waiting" ELSE "PeersMiss")
  /\ rejoin_cache' = IF gate = "cache" THEN CachePush(rejoin_cache, msg) ELSE rejoin_cache
  /\ returned_ids' = IF gate = "cache" THEN <<msg.session_id>> ELSE <<>>
  /\ UNCHANGED <<recvVars, driver_sent>>

Isend(dest) ==
  /\ CallerFree
  /\ Len(calls) < MaxSends
  /\ LET msg == NewMessage(dest)
         log == Append(calls, Call("isend", dest, "running"))
     IN  IF IsendGate(dest) = "pass" THEN IsendBody(msg, log)
         ELSE Gated(IsendGate(dest), msg, log)
  /\ UNCHANGED <<memberVars, relay>>

Send(dest) ==
  /\ CallerFree
  /\ Len(calls) < MaxSends
  /\ Len(calls) + 1 \in SessionIds
  /\ LET msg == NewMessage(dest)
         log == Append(calls, Call("send", dest, "running"))
     IN  IF SendGate(dest) = "pass" THEN SendBody(msg, log)
         ELSE Gated(SendGate(dest), msg, log)
  /\ UNCHANGED <<memberVars, relay>>

\* Mutant: only the names of the first peer type are counted.
OnboardCount_One == Len(onboard_peers_name_dict[TypeOrder[1]])
\* len(list(itertools.chain.from_iterable(self._onboard_peers_name_dict.values()))).
OnboardCount ==
  LET RECURSIVE Sum(_)
      Sum(i) == IF i = 0 THEN 0
                ELSE Len(onboard_peers_name_dict[TypeOrder[i]]) + Sum(i - 1)
  IN  Sum(Len(TypeOrder))

\* Lines 337-346: driver.broadcast, then [message.session_id] * number of
\* the peers onboard.
BroadcastBody(msg, log) ==
  /\ driver_sent' = Append(driver_sent, msg)
  /\ calls' = Finish(log, "sent")
  /\ returned_ids' = [i \in 1..OnboardCount |-> msg.session_id]
  /\ UNCHANGED rejoin_cache

\* ibroadcast: return what _broadcast returns.
Ibroadcast ==
  /\ CallerFree
  /\ Len(calls) < MaxSends
  /\ LET msg == NewMessage(Wildcard)
         log == Append(calls, Call("ibroadcast", Wildcard, "running"))
     IN  IF BroadcastGate = "pass"
         THEN BroadcastBody(msg, log) /\ UNCHANGED recvVars
         ELSE Gated(BroadcastGate, msg, log)
  /\ UNCHANGED <<memberVars, relay>>

\* broadcast: receive_by_id(self._broadcast(...)).
Broadcast ==
  /\ CallerFree
  /\ Len(calls) < MaxSends
  /\ Len(calls) + 1 \in SessionIds
  /\ LET msg == NewMessage(Wildcard)
         log == Append(calls, Call("broadcast", Wildcard, "running"))
     IN  IF BroadcastGate = "pass"
         THEN BroadcastBody(msg, log) /\ RecvStart(returned_ids')
         ELSE Gated(BroadcastGate, msg, log)
  /\ UNCHANGED <<memberVars, relay>>

(***************************************************************************)
(* reply and forward.  A session message is the record of the keyword      *)
(* arguments SessionMessage is built with.                                 *)
(***************************************************************************)
\* An argument the caller leaves out (None).
None == "None"
SessionTypes == {"TASK", "NOTIFICATION"}
SessionStages == {"REQUEST", "RECEIVE", "COMPLETE"}
\* The messages a peer sends to this proxy.
ReceivedMessages ==
  [tag : {"t"}, source : AllPeerNames, destination : {SelfName},
   session_id : SessionIds, payload : {"p"},
   session_type : SessionTypes, session_stage : SessionStages]
\* The tag and payload arguments of reply and forward.
TagArgs == {None, "u"}
PayloadArgs == {None, "q"}

\* Lines 419-429: the message reply builds.
ReplyMessage(received, tag, payload, ack_reply) ==
  [tag |-> IF tag # None THEN tag ELSE received.tag,
   source |-> SelfName,
   destination |-> received.source,
   session_id |-> received.session_id,
   payload |-> payload,
   session_stage |-> IF received.session_type = "TASK"
                     THEN (IF ack_reply THEN "RECEIVE" ELSE "COMPLETE")
                     ELSE "RECEIVE"]

\* Mutant: the forwarded message starts a new session stage.
ForwardMessage_Restaged(received, destination, tag, payload) ==
  [tag |-> IF tag # None THEN tag ELSE received.tag,
   source |-> SelfName,
   destination |-> destination,
   session_id |-> received.session_id,
   payload |-> IF payload # None THEN payload ELSE received.payload,
   session_stage |-> "REQUEST"]
\* Lines 445-450: the message forward builds.
ForwardMessage(received, destination, tag, payload) ==
  [tag |-> IF tag # None THEN tag ELSE received.tag,
   source |-> SelfName,
   destination |-> destination,
   session_id |-> received.session_id,
   payload |-> IF payload # None THEN payload ELSE received.payload,
   session_stage |-> received.session_stage]

\* What the wire sees of a message.
OnWire(msg) == [destination |-> msg.destination, session_id |-> msg.session_id]

\* return self.isend(message): the gate, then the body of isend.
RelayIsend(op, received, msg) ==
  /\ CallerFree
  /\ Len(calls) < MaxRelays
  /\ relay' = [op |-> op, received |-> received, handed |-> msg]
  /\ LET log == Append(calls, Call(op, msg.destination, "running"))
     IN  IF IsendGate(msg.destination) = "pass" THEN IsendBody(OnWire(msg), log)
         ELSE Gated(IsendGate(msg.destination), OnWire(msg), log)
  /\ UNCHANGED memberVars

Reply(received, tag, payload, ack_reply) ==
  RelayIsend("reply", received,
             ReplyMessage(received, tag, payload, ack_reply))

Forward(received, destination, tag, payload) ==
  RelayIsend("forward", received,
             ForwardMessage(received, destination, tag, payload))

\* The call waiting for its destination to come back (rejoin enabled, no
\* rejoin cache).
WaitingCall == calls[Len(calls)]
Waiting == calls # <<>> /\ WaitingCall.result = "waiting"
WaitingMessage == [destination |-> WaitingCall.destination, session_id |-> Len(calls)]

\* The destination is onboard again: the call goes on.
WaitResume ==
  /\ Waiting
  /\ pc = "ready"
  /\ PeersChecker(WaitingCall.destination) = "pass"
  /\ IF WaitingCall.op = "isend" THEN IsendBody(WaitingMessage, calls)
     ELSE SendBody(WaitingMessage, calls)
  /\ UNCHANGED <<memberVars, relay>>

\* max_wait_time_for_rejoin has passed: the call fails.
WaitTimeout ==
  /\ Waiting
  /\ pc = "ready"
  /\ PeersChecker(WaitingCall.destination) # "pass"
  /\ calls' = Finish(calls, "timeout")
  /\ UNCHANGED <<memberVars, recvVars, driver_sent, rejoin_cache, returned_ids, relay>>


Next ==
  \/ \E t \in PeerTypes : \E n \in NamesOf(t) : \E a \in Addrs : PeerHSet(t, n, a)
  \/ \E t \in PeerTypes : \E n \in NamesOf(t) : PeerHDel(t, n)
  \/ RegisterRedis
  \/ PollCensusMet
  \/ PollBackoff
  \/ PollExhausted
  \/ GetPeersNames
  \/ GetPeersNamesEmpty
  \/ BuildConnection
  \/ JoinReturn
  \/ CheckPeersUpdate
  \/ \E signum \in {SIGINT, SIGTERM} : SignalHandler(signum)
  \/ Del

Spec == Init /\ [][Next]_vars

(***************************************************************************)
(* The session router of a constructed proxy: the group of one actor and   *)
(* one worker has assembled and _join has returned.                        *)
(***************************************************************************)
\* rejoin, cache, arg: the constructor's arguments; n_actor actors are
\* expected and the actors onboard are those the registry showed to _join.
JoinedGroup(rejoin, cache, arg, n_actor, actors) ==
  /\ enable_rejoin = rejoin
  /\ enable_message_cache = cache
  /\ max_retries = 1
  /\ expected_number = [t \in PeerTypes |-> IF t = "actor" THEN n_actor ELSE 1]
  /\ minimal_peers = arg
  /\ twin = "none"
  /\ task = NoTask
  /\ redis = [k \in RedisKeys |->
                IF k = "g:actor" THEN [i \in 1..Len(actors) |-> <<actors[i], 1>>]
                ELSE IF k = "g:worker" THEN << <<"W1", 1>> >>
                ELSE IF k = redis_hash_name THEN << <<SelfName, SelfAddr>> >>
                ELSE IF k = JoinSideMap /\ rejoin THEN << <<SelfName, ContainerName>> >>
                ELSE <<>>]
  /\ driver_connected = {<<n, 1>> : n \in Range(actors) \cup {"W1"}}
  /\ pc = "ready"
  /\ type_idx = 1
  /\ retry_number = 0
  /\ onboard_peers_name_dict = [t \in PeerTypes |-> IF t = "actor" THEN actors ELSE <<"W1">>]
  /\ peers_socket_dict = [n \in Range(actors) \cup {"W1"} |-> 1]
  /\ error = "none"
  /\ exit_code = 0
  /\ sleep_log = <<>>
  /\ census_stable = (Len(actors) = n_actor)
  /\ joined = TRUE
  /\ message_cache = <<>>
  /\ rpc = "idle"
  /\ session_id_list = <<>>
  /\ pending_message_list = <<>>
  /\ received_message = <<>>
  /\ n_arrived = 0
  /\ delivered = {}
  /\ served_from_cache = <<>>
  /\ arrived_at_call = 0
  /\ returned_log = <<>>
  /\ driver_sent = <<>>
  /\ rejoin_cache = <<>>
  /\ calls = <<>>
  /\ returned_ids = <<>>
  /\ relay = NoRelay

\* One actor and one worker are expected and have assembled.
Joined(rejoin, cache) == JoinedGroup(rejoin, cache, DefaultMinimalPeers, 1, <<"A1">>)

\* receive_by_id on its own.
InitRecv == Joined(FALSE, FALSE)

NextRecv ==
  \/ \E ids \in RequestLists : ReceiveById(ids)
  \/ \E sid \in SessionIds : DriverReceive(sid)

SpecRecv == InitRecv /\ [][NextRecv]_vars

(***************************************************************************)
(* Send-class calls of a proxy without rejoin: the roster is the one       *)
(* _join found.                                                            *)
(***************************************************************************)
\* The roster is complete, or _join has returned with one actor of two.
InitSession ==
  \/ Joined(FALSE, FALSE)
  \/ JoinedGroup(FALSE, FALSE, DefaultMinimalPeers, 2, <<"A1">>)

NextSession ==
  \/ \E dest \in AllPeerNames : Isend(dest)
  \/ \E dest \in AllPeerNames : Send(dest)
  \/ Ibroadcast
  \/ Broadcast
  \/ \E sid \in SessionIds : DriverReceive(sid)

SpecSession == InitSession /\ [][NextSession]_vars

\* The peers that come and go while the proxy sends.
Churning(t) == IF t = "actor" THEN {"A1"} ELSE {"W1"}

(***************************************************************************)
(* A proxy that starts while a twin is starting too, or is still running   *)
(* and registered.                                                         *)
(***************************************************************************)
InitOwner ==
  /\ Init
  /\ ~enable_rejoin
  /\ max_retries = 1
  /\ expected_number = [t \in PeerTypes |-> 1]

TwinStarts ==
  /\ pc = "init"
  /\ twin = "none"
  /\ \/ twin' = "starting" /\ UNCHANGED redis
     \/ /\ twin' = "running"
        /\ redis' = [redis EXCEPT ![redis_hash_name] = HSet(@, SelfName, TwinAddr)]
  /\ UNCHANGED <<recvVars, sendVars, cfgVars, taskVars, driver_connected, pc, type_idx, retry_number,
                 onboard_peers_name_dict, peers_socket_dict, error, exit_code, histVars>>

NextOwner ==
  \/ TwinStarts
  \/ TwinRegister
  \/ TwinHook
  \/ \E t \in PeerTypes : \E n \in Churning(t) : \E a \in Addrs : PeerHSet(t, n, a)
  \/ \E t \in PeerTypes : \E n \in Churning(t) : PeerHDel(t, n)
  \/ RegisterRedis
  \/ PollCensusMet
  \/ PollBackoff
  \/ PollExhausted
  \/ GetPeersNames
  \/ GetPeersNamesEmpty
  \/ BuildConnection
  \/ JoinReturn
  \/ \E signum \in {SIGINT, SIGTERM} : SignalHandler(signum)
  \/ Del

SpecOwner == InitOwner /\ [][NextOwner]_vars

(***************************************************************************)
(* reply and forward of a proxy without rejoin, for every message a peer   *)
(* may have sent and every choice of the optional arguments.               *)
(***************************************************************************)
InitRelay == Joined(FALSE, FALSE)

NextRelay ==
  \/ \E m \in ReceivedMessages : \E tag \in TagArgs : \E payload \in PayloadArgs :
       \E ack_reply \in BOOLEAN : Reply(m, tag, payload, ack_reply)
  \/ \E m \in ReceivedMessages : \E destination \in AllPeerNames :
       \E tag \in TagArgs : \E payload \in PayloadArgs :
         Forward(m, destination, tag, payload)

SpecRelay == InitRelay /\ [][NextRelay]_vars

(***************************************************************************)
(* A proxy with rejoin enabled: actor A1 restarts, leaves and comes back,   *)
(* the proxy reconciles and sends to A1 and to the worker.                 *)
(***************************************************************************)
\* Two actors and a worker have assembled; one actor is enough for the
\* first minimal_peers argument, the second asks for both.
RejoinFractions ==
  {ScalarFraction(<<1, 2>>),
   MappingFraction([t \in PeerTypes |-> IF t = "actor" THEN <<1, 1>> ELSE <<1, 2>>])}

InitRejoin ==
  \E cache \in BOOLEAN : \E arg \in RejoinFractions :
    JoinedGroup(TRUE, cache, arg, 2, <<"A1", "A2">>)

NextRejoin ==
  \/ \E a \in Addrs : PeerHSet("actor", "A1", a)
  \/ PeerHDel("actor", "A1")
  \/ CheckPeersUpdate
  \/ \E t \in PeerTypes : \E dest \in Churning(t) : Isend(dest)
  \/ WaitResume
  \/ WaitTimeout

SpecRejoin == InitRejoin /\ [][NextRejoin]_vars

(***************************************************************************)
(* A proxy with rejoin enabled whose _check_peers_update runs next to the  *)
(* caller: actors come, restart and go, the caller broadcasts.             *)
(***************************************************************************)
InitTask == Joined(TRUE, FALSE)

NextTask ==
  \/ \E n \in NamesOf("actor") : \E a \in Addrs : PeerHSet("actor", n, a)
  \/ \E n \in NamesOf("actor") : PeerHDel("actor", n)
  \/ TaskRead
  \/ TaskItem
  \/ TaskExited
  \/ TaskNames
  \/ Ibroadcast

SpecTask == InitTask /\ [][NextTask]_vars

(***************************************************************************)
(* Properties of receive_by_id (checked under SpecRecv).                   *)
(***************************************************************************)
CountSid(q, sid) == Cardinality({i \in 1..Len(q) : q[i].session_id = sid})

\* C2 as stated: when receive_by_id(S) returns R, the session ids of R are
\* the set of S and every id of S appears exactly once in R.
C2_AsStated ==
  rpc = "returned" =>
    /\ SidsOf(received_message) = Range(session_id_list)
    /\ \A sid \in Range(session_id_list) : CountSid(received_message, sid) = 1

\* C2 (amended): when receive_by_id(S) returns R, the session ids of R are
\* the set of S, and every id that S lists once appears exactly once in R.
C2_ReturnedIds ==
  rpc = "returned" =>
    /\ SidsOf(received_message) = Range(session_id_list)
    /\ \A sid \in Range(session_id_list) :
         Count(session_id_list, sid) = 1 => CountSid(received_message, sid) = 1

\* A call for two different ids returned, one served from the cache and one
\* from the stream.
C2_Witness ==
  /\ rpc = "returned"
  /\ Len(session_id_list) = 2
  /\ session_id_list[1] # session_id_list[2]
  /\ Len(served_from_cache) = 1
  /\ n_arrived > arrived_at_call

\* C3: once a call has ended, every message the driver yielded has been
\* returned to a caller or is in the message cache.
C3_NoMessageLost ==
  rpc # "wait" => (1..n_arrived) \subseteq (delivered \cup CachedUids)

\* C4 as stated: when receive_by_id(S) returns, the cache has no entry for
\* an id that was served from the cache during the call.
C4_AsStated ==
  rpc = "returned" =>
    \A i \in 1..Len(served_from_cache) :
      served_from_cache[i].session_id \notin DOMAIN message_cache

\* C4 (amended): when receive_by_id(S) returns, the cache holds none of the
\* messages it served during the call; an entry under a served id holds only
\* messages the driver yielded during the call.
C4_ServedLeftCache ==
  rpc = "returned" =>
    \A i \in 1..Len(served_from_cache) :
      LET m == served_from_cache[i]
      IN  /\ m.uid \notin CachedUids
          /\ m.session_id \in DOMAIN message_cache =>
               \A u \in Uids(message_cache[m.session_id]) : u > arrived_at_call

\* A call returned with an id served from the cache and a later message of
\* that id cached while the call waited.
C4_Witness ==
  /\ rpc = "returned"
  /\ \E i \in 1..Len(served_from_cache) :
       served_from_cache[i].session_id \in DOMAIN message_cache

(***************************************************************************)
(* Properties of the rendezvous, the reconciliation and the shutdown       *)
(* hooks (checked under Spec).                                             *)
(***************************************************************************)
OnboardNames ==
  UNION {Range(onboard_peers_name_dict[t]) : t \in DOMAIN onboard_peers_name_dict}

\* C1: after a successful join and any number of completed reconciles, the
\* names onboard (over all peer types) are exactly the keys of the sockets.
C1_OnboardMatchesSockets ==
  pc = "ready" => OnboardNames = DOMAIN peers_socket_dict

\* Reconciles have seen every actor leave, the worker restart at the second
\* address and are complete.
C1_Witness ==
  /\ pc = "ready"
  /\ onboard_peers_name_dict["actor"] = <<>>
  /\ onboard_peers_name_dict["worker"] = <<"W1">>
  /\ driver_connected = {<<"W1", 2>>}

\* The step is a shutdown hook of a joined proxy.
HookRuns == joined /\ pc # pc' /\ pc' \in {"exited", "deleted"}

\* C5: a shutdown hook of a joined proxy (the signal handler, __del__)
\* leaves the hash group:self-type without the proxy's name.
C5_Deregistered ==
  [][HookRuns => SelfName \notin HFields(redis'[redis_hash_name])]_vars

\* The handler ran on SIGTERM in a joined proxy and exited with that number.
C5_Witness == joined /\ pc = "exited" /\ exit_code = SIGTERM

\* C6: with rejoin enabled, once the shutdown hooks have run the side map
\* _join wrote the proxy's name into no longer holds it.
C6_SideMapCleared ==
  (joined /\ enable_rejoin /\ pc \in {"exited", "deleted"})
    => SelfName \notin HFields(redis[JoinSideMap])

\* C7: when _join returns, every peer type has exactly its expected number
\* of names onboard, each with a resolved address.
C7_JoinCensus ==
  [][(pc = "publish" /\ pc' = "ready") =>
       \A t \in PeerTypes :
         /\ t \in DOMAIN onboard_peers_name_dict'
         /\ Len(onboard_peers_name_dict'[t]) = expected_number[t]
         /\ \A n \in Range(onboard_peers_name_dict'[t]) :
              n \in DOMAIN peers_socket_dict' /\ peers_socket_dict'[n] \in Addrs]_vars

\* C8: if the census was met when polling started and the registry has not
\* changed, _join does not sleep and does not fail.
C8_FirstPollSucceeds ==
  census_stable => (sleep_log = <<>> /\ pc # "failed")

(***************************************************************************)
(* Properties of the send gate (SpecSession) and of the rejoin cache       *)
(* (SpecRejoin).                                                           *)
(***************************************************************************)
\* The step is a new send-class call; its message.
CallStarts == Len(calls') = Len(calls) + 1
CalledWith == calls'[Len(calls')]
CalledMessage == [destination |-> CalledWith.destination, session_id |-> Len(calls')]

\* C9: with rejoin disabled, isend or send to a destination that is not
\* onboard fails with PeersMiss, hands nothing to the driver and leaves the
\* onboard names, the sockets and the message cache as they were.
C9_PeersMiss ==
  [][(CallStarts /\ ~enable_rejoin /\ CalledWith.op \in {"isend", "send"}
        /\ CalledWith.destination \notin OnboardNames) =>
       /\ CalledWith.result = "PeersMiss"
       /\ driver_sent' = driver_sent
       /\ UNCHANGED <<onboard_peers_name_dict, peers_socket_dict, message_cache,
                      rejoin_cache>>]_vars

\* An isend and a send to the absent A2 have both failed with PeersMiss.
C9_Witness ==
  /\ ~enable_rejoin
  /\ \E i, j \in 1..Len(calls) :
       /\ calls[i] = Call("isend", "A2", "PeersMiss")
       /\ calls[j] = Call("send", "A2", "PeersMiss")

\* The step is one pass of _check_peers_update over a peer type; the type,
\* and the names of it the registry shows new or at another address.
ReconcileStep == pc \in {"ready", "reconcile"} /\ pc' \in {"ready", "reconcile"} /\ pc' # pc
ReconciledType == TypeOrder[IF pc = "ready" THEN 1 ELSE type_idx]
FoundPeers ==
  LET h == redis[hash_table_name(ReconciledType)]
  IN  {n \in HFields(h) :
         \/ n \notin Range(onboard_peers_name_dict[ReconciledType])
         \/ n \notin DOMAIN peers_socket_dict
         \/ peers_socket_dict[n] # HGet(h, n)}
For(q, n) == SelectSeq(q, LAMBDA m : m.destination = n)

\* What C10 says of the reconcile that finds a peer new or restarted.
C10_Dispatch ==
  (ReconcileStep /\ enable_rejoin /\ enable_message_cache) =>
    /\ Len(driver_sent') >= Len(driver_sent)
    /\ SubSeq(driver_sent', 1, Len(driver_sent)) = driver_sent
    /\ \A n \in FoundPeers :
         /\ For(rejoin_cache', n) = <<>>
         /\ For(SubSeq(driver_sent', Len(driver_sent) + 1, Len(driver_sent')), n)
              = For(rejoin_cache, n)
\* An isend to a peer that is not onboard, rejoin and the rejoin cache enabled.
C10_IsendToAbsent ==
  /\ CallStarts /\ enable_rejoin /\ enable_message_cache
  /\ CalledWith.op = "isend"
  /\ CalledWith.destination \notin OnboardNames
C10_Enqueued ==
  /\ driver_sent' = driver_sent
  /\ rejoin_cache' # <<>>
  /\ rejoin_cache'[Len(rejoin_cache')] = CalledMessage

BelowMinimum == \E t \in PeerTypes : Len(onboard_peers_name_dict[t]) < MinimalPeers[t]

\* C11: a send-class call (isend, send, broadcast, ibroadcast) made while
\* some peer type is below its minimum fails with PeersMiss, rejoin enabled
\* or not.
C11_BelowMinimumFails ==
  [][(CallStarts /\ BelowMinimum) => CalledWith.result = "PeersMiss"]_vars

(***************************************************************************)
(* Properties of send and broadcast (SpecSession).                         *)
(***************************************************************************)
LastCall == calls[Len(calls)]
\* The last call was op and has returned: with what the driver reported, or
\* from its receive_by_id.
Returned(op) ==
  /\ calls # <<>>
  /\ LastCall.op = op
  /\ \/ LastCall.result = "status"
     \/ LastCall.result = "sent" /\ rpc = "returned"

\* C12: when send(m) has returned, it has returned replies it waited for,
\* each with the session id of m, whatever the driver reported for the send.
C12_SendWaitsForReply ==
  Returned("send") =>
    /\ LastCall.result = "sent"
    /\ received_message # <<>>
    /\ SidsOf(received_message) = {Len(calls)}

\* C13: ibroadcast returns the session id of its message once per peer
\* onboard, and when broadcast has returned it has returned that many
\* messages, each with that session id.
C13_BroadcastCount ==
  [][/\ (CallStarts /\ CalledWith.op = "ibroadcast" /\ CalledWith.result = "sent") =>
          returned_ids' = [i \in 1..Cardinality(OnboardNames) |-> Len(calls')]
     /\ (Returned("broadcast"))' =>
          /\ Len(received_message') = Cardinality(OnboardNames)
          /\ SidsOf(received_message') \subseteq {Len(calls')}]_vars

\* A broadcast to the two peers onboard has returned two replies, the first
\* taken from the cache and the second from the stream, after an ibroadcast
\* that returned its session id twice.
C13_Witness ==
  /\ Returned("broadcast")
  /\ Len(received_message) = 2
  /\ Len(served_from_cache) = 1
  /\ n_arrived > arrived_at_call
  /\ \E k \in 1..Len(calls) : calls[k] = Call("ibroadcast", Wildcard, "sent")

(***************************************************************************)
(* Properties of the message cache (SpecRecv).                             *)
(***************************************************************************)
\* The step is the start of a receive_by_id call.
RecvCallStarts == n_arrived' = n_arrived /\ arrived_at_call' = n_arrived /\ rpc # "wait"
\* The step is one message of the stream, taken by a waiting call.
Arrival == n_arrived' = n_arrived + 1
ArrivedWith(sid) == [session_id |-> sid, uid |-> n_arrived + 1]
Bucket(cache, sid) == IF sid \in DOMAIN cache THEN cache[sid] ELSE <<>>
\* Every id of the request is in the cache as often as the request lists it.
CacheSatisfies(ids) ==
  \A sid \in Range(ids) : Len(Bucket(message_cache, sid)) = Count(ids, sid)

\* What C14 says of a step of receive_by_id.
C14_Step ==
  /\ Arrival =>
       \E sid \in SessionIds :
         IF sid \in Range(pending_message_list)
         THEN /\ received_message' = Append(received_message, ArrivedWith(sid))
              /\ message_cache' = message_cache
         ELSE /\ received_message' = received_message
              /\ Bucket(message_cache', sid)
                   = Append(Bucket(message_cache, sid), ArrivedWith(sid))
              /\ \A k \in DOMAIN message_cache \ {sid} :
                   Bucket(message_cache', k) = message_cache[k]
  /\ RecvCallStarts =>
       /\ \A sid \in Range(session_id_list') :
            Uids(Bucket(message_cache, sid)) \subseteq Uids(received_message')
       /\ CacheSatisfies(session_id_list') => rpc' = "returned"

\* C14: a message that arrives while its id is not pending goes to the end
\* of the cache bucket of its id; a call that requests an id takes every
\* message cached under it into its result; a call the cache satisfies
\* returns without reading the stream.
C14_CachedThenReturned == [][C14_Step]_vars

\* C15: the messages of one session id are returned in the order of their
\* arrival, within a returned list and from one call to the next.
C15_ArrivalOrder ==
  \A i, j \in 1..Len(returned_log) :
    (i < j /\ returned_log[i].session_id = returned_log[j].session_id)
      => returned_log[i].uid < returned_log[j].uid

\* A call has returned two messages of one session id that both waited in
\* the cache, after a message of that id that came straight from the stream.
C15_Witness ==
  /\ rpc = "returned"
  /\ Len(served_from_cache) = 2
  /\ served_from_cache[1].session_id = served_from_cache[2].session_id
  /\ \E i \in 1..Len(returned_log) :
       /\ returned_log[i].session_id = served_from_cache[1].session_id
       /\ returned_log[i].uid < served_from_cache[1].uid

(***************************************************************************)
(* Properties of reply and forward (SpecRelay).                            *)
(***************************************************************************)
\* C16: the message forward(m, d) hands to isend has the session id and the
\* session stage of m; the message reply(m) hands to isend has the session
\* id of m and goes to the source of m.  (isend is called with that message:
\* the call is made for its destination and, when it passes the gate, the
\* wire sees its destination and session id.)
C16_RoundTrip ==
  relay.op # "none" =>
    /\ relay.handed.session_id = relay.received.session_id
    /\ relay.op = "forward" => relay.handed.session_stage = relay.received.session_stage
    /\ relay.op = "reply" => relay.handed.destination = relay.received.source
    /\ LastCall.op = relay.op
    /\ LastCall.destination = relay.handed.destination
    /\ LastCall.result = "sent" => driver_sent[Len(driver_sent)] = OnWire(relay.handed)

\* A completed task message of W1 has been forwarded to A1 with a new tag
\* and payload, and is on the wire.
C16_Witness ==
  /\ relay.op = "forward"
  /\ relay.received.session_stage = "COMPLETE"
  /\ relay.received.source = "W1"
  /\ relay.handed.destination = "A1"
  /\ relay.handed.tag = "u"
  /\ relay.handed.payload = "q"
  /\ LastCall.result = "sent"
  /\ driver_sent = <<OnWire(relay.handed)>>

(***************************************************************************)
(* Properties of the registry entry of the proxy (SpecOwner).              *)
(***************************************************************************)
\* The proxy has registered and its own shutdown hooks have not run.
Registered == pc \in {"poll", "hkeys", "build", "publish", "ready", "reconcile"}

\* C17: from its registration until its own shutdown hooks run, the hash
\* group:self-type maps the proxy's name to the proxy's own address.
C17_OwnsEntry ==
  Registered => HGet(redis[redis_hash_name], SelfName) = SelfAddr

(***************************************************************************)
(* Properties of the rejoin cache (SpecRejoin).                            *)
(***************************************************************************)
\* The step is a send-class call whose message the gate puts into the cache.
Enqueues == CallStarts /\ CalledWith.result = "cached"

\* C18: the rejoin cache never holds more entries than its capacity, and a
\* message enqueued into a full cache takes the place of the oldest entry.
C18_BoundedFifo ==
  /\ Len(rejoin_cache) <= RejoinCacheCapacity
  /\ [][/\ Len(rejoin_cache') <= RejoinCacheCapacity
        /\ (Enqueues /\ Len(rejoin_cache) = RejoinCacheCapacity) =>
             rejoin_cache' = Append(Tail(rejoin_cache), CalledMessage)
        /\ (Enqueues /\ Len(rejoin_cache) < RejoinCacheCapacity) =>
             rejoin_cache' = Append(rejoin_cache, CalledMessage)]_vars

\* The cache is full and has lost its oldest entry, the message of the first
\* call, to a later one.
C18_Witness ==
  /\ Len(rejoin_cache) = RejoinCacheCapacity
  /\ calls # <<>>
  /\ calls[1].result = "cached"
  /\ rejoin_cache[1].session_id > 1
  /\ rejoin_cache[Len(rejoin_cache)].session_id = Len(calls)
  /\ LastCall.result = "cached"

(***************************************************************************)
(* Properties of the polling loop of _join (Spec).                         *)
(***************************************************************************)
\* The polls of the current peer type: every failed poll was followed by a
\* sleep, and at pc = "hkeys" one more poll has met the census.
Polls == Len(sleep_log) + (IF pc = "hkeys" THEN 1 ELSE 0)
BackoffOk ==
  /\ Polling => Polls <= max_retries
  /\ Len(sleep_log) <= max_retries
  /\ \A i \in 1..Len(sleep_log) : sleep_log[i] = BaseRetryInterval * 2^(i - 1)

\* C19: for each peer type join polls at most max_retries times and sleeps
\* B * 2^k after failed poll k; when max_retries polls have failed the next
\* step of join is its failure with InformationUncompleted, no driver
\* connection open and no further sleep (at once when max_retries = 0).
C19_BoundedBackoff ==
  /\ BackoffOk
  /\ [][/\ BackoffOk'
        /\ (pc = "poll" /\ Len(sleep_log) = max_retries /\ pc' # pc) =>
             /\ pc' \in {"failed", "exited"}
             /\ sleep_log' = sleep_log
             /\ driver_connected' = {}
             /\ pc' = "failed" => error' = "InformationUncompleted"]_vars

\* Join has failed after max_retries >= 2 polls of one peer type, each
\* followed by its sleep.
C19_Witness ==
  /\ pc = "failed"
  /\ error = "InformationUncompleted"
  /\ max_retries >= 2
  /\ Len(sleep_log) = max_retries
  /\ driver_connected = {}

(***************************************************************************)
(* Properties of one pass of _check_peers_update (Spec).                   *)
(***************************************************************************)
\* The registry hash of the reconciled type, the names onboard before the
\* pass, and the calls the driver is told for peer n during it.
ReconciledHash == redis[hash_table_name(ReconciledType)]
WasOnboard(n) == n \in Range(onboard_peers_name_dict[ReconciledType])
Told(n) ==
  DriverCallsFor(n, OnBoardPeersDict(peers_socket_dict,
                                     onboard_peers_name_dict[ReconciledType]),
                 HGetAll(ReconciledHash))

\* C20: after the pass the names onboard of the type are the names of its
\* registry hash and each has its registry address as socket; the driver is
\* told connect(new) for a new name, disconnect(old) then connect(new) for a
\* restarted one, disconnect(old) for an exited one and nothing for the
\* others, and its connections change accordingly.
C20_Reconciled ==
  [][ReconcileStep =>
       /\ Range(onboard_peers_name_dict'[ReconciledType]) = HFields(ReconciledHash)
       /\ \A n \in HFields(ReconciledHash) :
            /\ n \in DOMAIN peers_socket_dict'
            /\ peers_socket_dict'[n] = HGet(ReconciledHash, n)
            /\ <<n, HGet(ReconciledHash, n)>> \in driver_connected'
       /\ \A n \in NamesOf(ReconciledType) :
            LET new == HGet(ReconciledHash, n)
                old == IF n \in DOMAIN peers_socket_dict THEN peers_socket_dict[n]
                       ELSE EmptySocket
            IN  /\ (n \in HFields(ReconciledHash) /\ ~WasOnboard(n)) =>
                     Told(n) = <<DriverCall("connect", n, new)>>
                /\ (n \in HFields(ReconciledHash) /\ WasOnboard(n) /\ old # new) =>
                     /\ Told(n) = <<DriverCall("disconnect", n, old),
                                    DriverCall("connect", n, new)>>
                     /\ <<n, old>> \notin driver_connected'
                /\ (n \notin HFields(ReconciledHash) /\ WasOnboard(n)) =>
                     /\ Told(n) = <<DriverCall("disconnect", n, old)>>
                     /\ n \notin DOMAIN peers_socket_dict'
                     /\ <<n, old>> \notin driver_connected'
                /\ (n \in HFields(ReconciledHash) /\ WasOnboard(n) /\ old = new) =>
                     Told(n) = <<>>
                /\ (n \notin HFields(ReconciledHash) /\ ~WasOnboard(n)) =>
                     Told(n) = <<>>
       /\ \A c \in driver_connected \cup driver_connected' :
            c[1] \notin NamesOf(ReconciledType) =>
              (c \in driver_connected <=> c \in driver_connected')]_vars

\* Both passes of a reconcile are complete: it found A2 new, A1 exited and
\* W1 restarted at the second address.
C20_Witness ==
  /\ pc = "ready"
  /\ enable_rejoin
  /\ onboard_peers_name_dict["actor"] = <<"A2">>
  /\ expected_number["actor"] = 1
  /\ driver_connected = {<<"A2", 1>>, <<"W1", 2>>}
  /\ peers_socket_dict = [n \in {"A2", "W1"} |-> IF n = "A2" THEN 1 ELSE 2]

(***************************************************************************)
(* The size of the result of receive_by_id (SpecRecv).                     *)
(***************************************************************************)
\* C23: when receive_by_id(S) returns, the result holds, for every session
\* id, as many messages with that id as S lists it, and so as many messages
\* as S has ids.
C23_CountsMatch ==
  rpc = "returned" =>
    /\ \A sid \in SessionIds :
         CountSid(received_message, sid) = Count(session_id_list, sid)
    /\ Len(received_message) = Len(session_id_list)

\* A call that lists the same id twice has returned two messages with it,
\* the first from the cache and the second from the stream.
C23_Witness ==
  /\ rpc = "returned"
  /\ Len(session_id_list) = 2
  /\ session_id_list[1] = session_id_list[2]
  /\ Len(received_message) = 2
  /\ Len(served_from_cache) = 1
  /\ received_message[2].uid > arrived_at_call

(***************************************************************************)
(* The driver's connections and the socket map (Spec).                     *)
(***************************************************************************)
\* The socket map as a set of (name, address) pairs.
SocketPairs == {<<n, peers_socket_dict[n]>> : n \in DOMAIN peers_socket_dict}

\* C22: once _join has returned, and after every pass of the reconcile, the
\* connections the driver was told to open and not told to close are the
\* pairs of the socket map.
C22_ConnectionsAreSockets ==
  (joined /\ pc \in {"ready", "reconcile"}) => driver_connected = SocketPairs

\* One actor was expected; since the join a second actor has come, A1 has
\* restarted at the second address and the worker has left, and the driver
\* is connected to the two actors at their addresses only.
C22_Witness ==
  /\ joined
  /\ pc = "ready"
  /\ expected_number["actor"] = 1
  /\ DOMAIN peers_socket_dict = {"A1", "A2"}
  /\ peers_socket_dict["A1"] = 2
  /\ peers_socket_dict["A2"] = 1
  /\ driver_connected = {<<"A1", 2>>, <<"A2", 1>>}
  /\ HGet(redis[hash_table_name("actor")], "A1") = 2

(***************************************************************************)
(* The reconcile next to the caller (SpecTask).                            *)
(***************************************************************************)
\* C21: in no state in which the caller can start an operation, the
\* reconcile being between two of its steps or not, a name is in only one
\* of the names onboard and the socket map.
C21_Serialized ==
  CallerFree => OnboardNames = DOMAIN peers_socket_dict

====
